---- MODULE Spec2Model ----
(***************************************************************************)
(* The cpp-cli template of nix-polyglot: the hello library (get_greeting,  *)
(* print_count, get_build_info), the demonstration entry point (main.cpp)  *)
(* and the hand-rolled test harness (test_hello.cpp).                      *)
(*                                                                         *)
(* A std::string is a sequence of bytes, each byte a one-element token:    *)
(* an ASCII byte is the character itself, a byte of a multi-byte UTF-8     *)
(* sequence is "xHH".  Standard output is the sequence of bytes written.   *)
(***************************************************************************)
EXTENDS Integers, Sequences, FiniteSets, TLC

VARIABLES
    pc,               \* call stack of program points, innermost frame last
    args,             \* arguments of the library call under analysis
    result,           \* value returned by the library call under analysis
    out,              \* bytes written to std::cout so far
    cfg,              \* compile-time configuration (predefined macros)
    count,            \* print_count: parameter
    i,                \* print_count: loop variable
    test_count,       \* test_hello.cpp:7
    test_passed,      \* test_hello.cpp:8
    greeting,         \* test_hello.cpp:25
    default_greeting, \* test_hello.cpp:34
    build_info,       \* test_hello.cpp:41
    exit_status       \* value returned by main, Running before it returns

vars == <<pc, args, result, out, cfg, count, i, test_count, test_passed,
          greeting, default_greeting, build_info, exit_status>>

(***************************************************************************)
(* String literals of the sources.                                         *)
(***************************************************************************)
\* hello.cpp:8: 'Hello, '
STR_HELLO ==
    <<"H", "e", "l", "l", "o", ",", " ">>
\* hello.cpp:8: ' from C++! \U0001f680'
STR_FROM_CPP ==
    <<" ", "f", "r", "o", "m", " ", "C", "+", "+", "!", " ", "xF0", "x9F", "x9A", "x80">>
\* hello.cpp:12: 'Counting demonstration:\n'
STR_COUNTING ==
    <<"C", "o", "u", "n", "t", "i", "n", "g", " ", "d", "e", "m", "o", "n", "s", "t", "r", "a", "t", "i", "o", "n", ":", "\n">>
\* hello.cpp:14: 'Count: '
STR_COUNT ==
    <<"C", "o", "u", "n", "t", ":", " ">>
\* hello.cpp:22: '\U0001f527 Running DEBUG build (dev mode)'
STR_DEBUG ==
    <<"xF0", "x9F", "x94", "xA7", " ", "R", "u", "n", "n", "i", "n", "g", " ", "D", "E", "B", "U", "G", " ", "b", "u", "i", "l", "d", " ", "(", "d", "e", "v", " ", "m", "o", "d", "e", ")">>
\* hello.cpp:24: '\U0001f680 Running RELEASE build (optimized)'
STR_RELEASE ==
    <<"xF0", "x9F", "x9A", "x80", " ", "R", "u", "n", "n", "i", "n", "g", " ", "R", "E", "L", "E", "A", "S", "E", " ", "b", "u", "i", "l", "d", " ", "(", "o", "p", "t", "i", "m", "i", "z", "e", "d", ")">>
\* hello.cpp:26: '\U0001f4e6 Standard build'
STR_STANDARD ==
    <<"xF0", "x9F", "x93", "xA6", " ", "S", "t", "a", "n", "d", "a", "r", "d", " ", "b", "u", "i", "l", "d">>
\* hello.cpp:29: '\nCompiler: '
STR_COMPILER ==
    <<"\n", "C", "o", "m", "p", "i", "l", "e", "r", ":", " ">>
\* hello.cpp:31: 'Clang '
STR_CLANG ==
    <<"C", "l", "a", "n", "g", " ">>
\* hello.cpp:31: '.'
STR_DOT ==
    <<".">>
\* hello.cpp:33: 'GCC '
STR_GCC ==
    <<"G", "C", "C", " ">>
\* hello.cpp:35: 'Unknown compiler'
STR_UNKNOWN ==
    <<"U", "n", "k", "n", "o", "w", "n", " ", "c", "o", "m", "p", "i", "l", "e", "r">>
\* hello.cpp:38: '\nC++ Standard: '
STR_CPP_STANDARD ==
    <<"\n", "C", "+", "+", " ", "S", "t", "a", "n", "d", "a", "r", "d", ":", " ">>
\* hello.hpp:11: 'World'
STR_WORLD ==
    <<"W", "o", "r", "l", "d">>
\* main.cpp:6: 'This is a C++ console application created with nix-polyglot.\n'
STR_DESCRIPTION ==
    <<"T", "h", "i", "s", " ", "i", "s", " ", "a", " ", "C", "+", "+", " ", "c", "o", "n", "s", "o", "l", "e", " ", "a", "p", "p", "l", "i", "c", "a", "t", "i", "o", "n", " ", "c", "r", "e", "a", "t", "e", "d", " ", "w", "i", "t", "h", " ", "n", "i", "x", "-", "p", "o", "l", "y", "g", "l", "o", "t", ".", "\n">>
\* test_hello.cpp:21: 'Running C++ tests...\n'
STR_RUNNING ==
    <<"R", "u", "n", "n", "i", "n", "g", " ", "C", "+", "+", " ", "t", "e", "s", "t", "s", ".", ".", ".", "\n">>
\* test_hello.cpp:25: 'Test'
STR_TEST ==
    <<"T", "e", "s", "t">>
\* test_hello.cpp:26: 'Hello, Test'
STR_HELLO_TEST ==
    <<"H", "e", "l", "l", "o", ",", " ", "T", "e", "s", "t">>
\* test_hello.cpp:27: "get_greeting should contain 'Hello, Test'"
NAME_1 ==
    <<"g", "e", "t", "_", "g", "r", "e", "e", "t", "i", "n", "g", " ", "s", "h", "o", "u", "l", "d", " ", "c", "o", "n", "t", "a", "i", "n", " ", "'", "H", "e", "l", "l", "o", ",", " ", "T", "e", "s", "t", "'">>
\* test_hello.cpp:28: 'C++'
STR_CPP ==
    <<"C", "+", "+">>
\* test_hello.cpp:29: "get_greeting should contain 'C++'"
NAME_2 ==
    <<"g", "e", "t", "_", "g", "r", "e", "e", "t", "i", "n", "g", " ", "s", "h", "o", "u", "l", "d", " ", "c", "o", "n", "t", "a", "i", "n", " ", "'", "C", "+", "+", "'">>
\* test_hello.cpp:36: "default greeting should contain 'World'"
NAME_3 ==
    <<"d", "e", "f", "a", "u", "l", "t", " ", "g", "r", "e", "e", "t", "i", "n", "g", " ", "s", "h", "o", "u", "l", "d", " ", "c", "o", "n", "t", "a", "i", "n", " ", "'", "W", "o", "r", "l", "d", "'">>
\* test_hello.cpp:42: 'build_info should not be empty'
NAME_4 ==
    <<"b", "u", "i", "l", "d", "_", "i", "n", "f", "o", " ", "s", "h", "o", "u", "l", "d", " ", "n", "o", "t", " ", "b", "e", " ", "e", "m", "p", "t", "y">>
\* test_hello.cpp:43: 'build'
STR_BUILD ==
    <<"b", "u", "i", "l", "d">>
\* test_hello.cpp:44: "build_info should contain 'build'"
NAME_5 ==
    <<"b", "u", "i", "l", "d", "_", "i", "n", "f", "o", " ", "s", "h", "o", "u", "l", "d", " ", "c", "o", "n", "t", "a", "i", "n", " ", "'", "b", "u", "i", "l", "d", "'">>
\* test_hello.cpp:48: '\n\U0001f4ca Test Results:'
STR_RESULTS ==
    <<"\n", "xF0", "x9F", "x93", "x8A", " ", "T", "e", "s", "t", " ", "R", "e", "s", "u", "l", "t", "s", ":">>
\* test_hello.cpp:49: 'Tests run: '
STR_TESTS_RUN ==
    <<"T", "e", "s", "t", "s", " ", "r", "u", "n", ":", " ">>
\* test_hello.cpp:50: 'Tests passed: '
STR_TESTS_PASSED ==
    <<"T", "e", "s", "t", "s", " ", "p", "a", "s", "s", "e", "d", ":", " ">>
\* test_hello.cpp:51: 'Tests failed: '
STR_TESTS_FAILED ==
    <<"T", "e", "s", "t", "s", " ", "f", "a", "i", "l", "e", "d", ":", " ">>
\* test_hello.cpp:54: '\U0001f389 All tests passed!'
STR_ALL_PASSED ==
    <<"xF0", "x9F", "x8E", "x89", " ", "A", "l", "l", " ", "t", "e", "s", "t", "s", " ", "p", "a", "s", "s", "e", "d", "!">>
\* test_hello.cpp:57: '\U0001f4a5 Some tests failed!'
STR_SOME_FAILED ==
    <<"xF0", "x9F", "x92", "xA5", " ", "S", "o", "m", "e", " ", "t", "e", "s", "t", "s", " ", "f", "a", "i", "l", "e", "d", "!">>
\* test_hello.cpp:14: '\u2705 PASS: '
STR_PASS ==
    <<"xE2", "x9C", "x85", " ", "P", "A", "S", "S", ":", " ">>
\* test_hello.cpp:16: '\u274c FAIL: '
STR_FAIL ==
    <<"xE2", "x9D", "x8C", " ", "F", "A", "I", "L", ":", " ">>

(***************************************************************************)
(* Bounds of the model and the input sets drawn from them.                 *)
(***************************************************************************)
MaxNameLen == 3
MaxCount == 12
MaxNeg == 3

\* Bytes the names given to get_greeting are built from.
NameBytes == {"T", "C", "+", " "}

RECURSIVE StringsUpTo(_)
StringsUpTo(n) ==
    IF n = 0 THEN {<<>>}
    ELSE LET shorter == StringsUpTo(n - 1)
         IN shorter \cup {Append(s, b) : s \in shorter, b \in NameBytes}

Names == StringsUpTo(MaxNameLen) \cup {STR_TEST, STR_WORLD}

Counts == (0 - MaxNeg)..MaxCount

(***************************************************************************)
(* Compile-time configuration: each predefined macro is <<>> when it is    *)
(* not defined and <<value>> when it is.                                   *)
(***************************************************************************)
Undefined == <<>>

Defined(c, macro) == c[macro] # Undefined

ClangVersions == {<<17, 0>>, <<3, 10>>}
GccVersions == {<<13, 2>>, <<4, 9>>}
CppStandards == {201103, 201703}

Macros(debug, release, clang, gnuc, std) ==
    [m \in {"DEBUG_BUILD", "RELEASE_BUILD", "__clang__", "__clang_major__",
            "__clang_minor__", "__GNUC__", "__GNUC_MINOR__", "__cplusplus"} |->
        CASE m = "DEBUG_BUILD" -> IF debug THEN <<1>> ELSE Undefined
          [] m = "RELEASE_BUILD" -> IF release THEN <<1>> ELSE Undefined
          [] m = "__clang__" -> IF clang = Undefined THEN Undefined ELSE <<1>>
          [] m = "__clang_major__" ->
                IF clang = Undefined THEN Undefined ELSE <<clang[1]>>
          [] m = "__clang_minor__" ->
                IF clang = Undefined THEN Undefined ELSE <<clang[2]>>
          [] m = "__GNUC__" -> IF gnuc = Undefined THEN Undefined ELSE <<gnuc[1]>>
          [] m = "__GNUC_MINOR__" ->
                IF gnuc = Undefined THEN Undefined ELSE <<gnuc[2]>>
          [] m = "__cplusplus" -> <<std>>]

Configs ==
    {Macros(debug, release, clang, gnuc, std) :
        debug \in BOOLEAN, release \in BOOLEAN,
        clang \in {Undefined} \cup ClangVersions,
        gnuc \in {Undefined} \cup GccVersions,
        std \in CppStandards}

(***************************************************************************)
(* The standard library as the sources use it.                             *)
(***************************************************************************)
\* std::ostream << int: the decimal digits, a minus sign first when negative.
Digit(d) ==
    CASE d = 0 -> "0" [] d = 1 -> "1" [] d = 2 -> "2" [] d = 3 -> "3"
      [] d = 4 -> "4" [] d = 5 -> "5" [] d = 6 -> "6" [] d = 7 -> "7"
      [] d = 8 -> "8" [] d = 9 -> "9"

RECURSIVE NatToDec(_)
NatToDec(n) ==
    IF n < 10 THEN <<Digit(n)>>
    ELSE Append(NatToDec(n \div 10), Digit(n % 10))

IntToDec(n) == IF n < 0 THEN <<"-">> \o NatToDec(0 - n) ELSE NatToDec(n)

\* std::endl: a line feed (and a flush, which writes nothing).
endl == <<"\n">>

\* std::string::npos is size_type(-1); no string here is that long.
npos == 0 - 1

\* Whether sub occurs in s starting at the zero-based position pos.
MatchAt(s, sub, pos) ==
    /\ pos + Len(sub) <= Len(s)
    /\ \A k \in 1..Len(sub) : s[pos + k] = sub[k]

\* std::string::find(sub): the first position where sub occurs, or npos.
find(s, sub) ==
    IF \E p \in 0..Len(s) : MatchAt(s, sub, p)
    THEN CHOOSE p \in 0..Len(s) :
            MatchAt(s, sub, p) /\ \A q \in 0..(p - 1) : ~MatchAt(s, sub, q)
    ELSE npos

\* std::string::empty()
empty(s) == Len(s) = 0

(***************************************************************************)
(* hello.cpp                                                               *)
(***************************************************************************)
\* A get_greeting that greets the default name whatever name it is given.
get_greeting_IgnoresName(name) == STR_HELLO \o STR_WORLD \o STR_FROM_CPP

get_greeting(name) == STR_HELLO \o name \o STR_FROM_CPP

\* hello.cpp:23 with #ifdef in the place of #elif: the release text is kept
\* whenever RELEASE_BUILD is defined.
BuildModeText_NoElif(c) ==
    (IF Defined(c, "DEBUG_BUILD") THEN STR_DEBUG ELSE <<>>)
        \o (IF Defined(c, "RELEASE_BUILD") THEN STR_RELEASE
            ELSE IF Defined(c, "DEBUG_BUILD") THEN <<>> ELSE STR_STANDARD)

\* hello.cpp:21-27: the build-mode text the preprocessor keeps.
BuildModeText(c) ==
    IF Defined(c, "DEBUG_BUILD") THEN STR_DEBUG
    ELSE IF Defined(c, "RELEASE_BUILD") THEN STR_RELEASE
    ELSE STR_STANDARD

\* hello.cpp:30-36 without the #else branch.
CompilerText_NoFallback(c) ==
    IF Defined(c, "__clang__")
    THEN STR_CLANG \o IntToDec(c["__clang_major__"][1]) \o STR_DOT
                   \o IntToDec(c["__clang_minor__"][1])
    ELSE IF Defined(c, "__GNUC__")
    THEN STR_GCC \o IntToDec(c["__GNUC__"][1]) \o STR_DOT
                 \o IntToDec(c["__GNUC_MINOR__"][1])
    ELSE <<>>

\* hello.cpp:30-36: the compiler text the preprocessor keeps.
CompilerText(c) ==
    IF Defined(c, "__clang__")
    THEN STR_CLANG \o IntToDec(c["__clang_major__"][1]) \o STR_DOT
                   \o IntToDec(c["__clang_minor__"][1])
    ELSE IF Defined(c, "__GNUC__")
    THEN STR_GCC \o IntToDec(c["__GNUC__"][1]) \o STR_DOT
                 \o IntToDec(c["__GNUC_MINOR__"][1])
    ELSE STR_UNKNOWN

get_build_info(c) ==
    BuildModeText(c) \o STR_COMPILER \o CompilerText(c)
        \o STR_CPP_STANDARD \o IntToDec(c["__cplusplus"][1])

(***************************************************************************)
(* State of a program that has not started.                                *)
(***************************************************************************)
NotExited == 0 - 1

Idle ==
    /\ result = <<>>
    /\ out = <<>>
    /\ count = 0
    /\ i = 0
    /\ test_count = 0
    /\ test_passed = 0
    /\ greeting = <<>>
    /\ default_greeting = <<>>
    /\ build_info = <<>>
    /\ exit_status = NotExited

(***************************************************************************)
(* A call of get_greeting: with a name, or with none (hello.hpp:11 gives   *)
(* the default argument).                                                  *)
(***************************************************************************)
InitGreet ==
    /\ pc = <<"get_greeting">>
    /\ args \in {<<>>} \cup {<<name>> : name \in Names}
    /\ cfg \in Configs
    /\ Idle

CallGetGreeting ==
    /\ pc = <<"get_greeting">>
    /\ result' = get_greeting(IF Len(args) = 0 THEN STR_WORLD ELSE args[1])
    /\ pc' = <<>>
    /\ UNCHANGED <<args, out, cfg, count, i, test_count, test_passed,
                   greeting, default_greeting, build_info, exit_status>>

NextGreet == CallGetGreeting

SpecGreet == InitGreet /\ [][NextGreet]_vars

(***************************************************************************)
(* A call of get_build_info under each compile-time configuration.         *)
(***************************************************************************)
InitBuild ==
    /\ pc = <<"get_build_info">>
    /\ args = <<>>
    /\ cfg \in Configs
    /\ Idle

CallGetBuildInfo ==
    /\ pc = <<"get_build_info">>
    /\ result' = get_build_info(cfg)
    /\ pc' = <<>>
    /\ UNCHANGED <<args, out, cfg, count, i, test_count, test_passed,
                   greeting, default_greeting, build_info, exit_status>>

NextBuild == CallGetBuildInfo

SpecBuild == InitBuild /\ [][NextBuild]_vars

(***************************************************************************)
(* The call stack: pc's last element is the running frame's program point. *)
(***************************************************************************)
At(label) == Len(pc) > 0 /\ pc[Len(pc)] = label

Goto(label) == [pc EXCEPT ![Len(pc)] = label]

Return == SubSeq(pc, 1, Len(pc) - 1)

(***************************************************************************)
(* hello.cpp:11-16, print_count.  The default argument is hello.hpp:17.    *)
(***************************************************************************)
DefaultCount == 5

\* The loop condition with <= in the place of <.
LoopCondition_Inclusive == i <= count

\* hello.cpp:13, the loop condition.
LoopCondition == i < count

\* The call binds the parameter.
PrintCountEnter ==
    /\ At("print_count")
    /\ count' = IF Len(args) = 0 THEN DefaultCount ELSE args[1]
    /\ pc' = Goto("print_count:12")
    /\ UNCHANGED <<args, result, out, cfg, i, test_count, test_passed,
                   greeting, default_greeting, build_info, exit_status>>

\* The loop as a do-while: the first iteration runs before the condition is
\* looked at.
PrintCountHeader_DoWhile ==
    /\ At("print_count:12")
    /\ out' = out \o STR_COUNTING \o STR_COUNT \o IntToDec(0) \o endl
    /\ i' = 1
    /\ pc' = Goto("print_count:13")
    /\ UNCHANGED <<args, result, cfg, count, test_count, test_passed,
                   greeting, default_greeting, build_info, exit_status>>

\* hello.cpp:12 and the loop's initialisation.
PrintCountHeader ==
    /\ At("print_count:12")
    /\ out' = out \o STR_COUNTING
    /\ i' = 0
    /\ pc' = Goto("print_count:13")
    /\ UNCHANGED <<args, result, cfg, count, test_count, test_passed,
                   greeting, default_greeting, build_info, exit_status>>

\* hello.cpp:13-15, one iteration.  i < count <= INT_MAX, so ++i cannot
\* overflow.
PrintCountBody ==
    /\ At("print_count:13")
    /\ LoopCondition
    /\ out' = out \o STR_COUNT \o IntToDec(i) \o endl
    /\ i' = i + 1
    /\ UNCHANGED <<pc, args, result, cfg, count, test_count, test_passed,
                   greeting, default_greeting, build_info, exit_status>>

\* hello.cpp:13 and 16: the loop condition fails and the function returns.
PrintCountReturn ==
    /\ At("print_count:13")
    /\ ~LoopCondition
    /\ pc' = Return
    /\ UNCHANGED <<args, result, out, cfg, count, i, test_count, test_passed,
                   greeting, default_greeting, build_info, exit_status>>

InitCount ==
    /\ pc = <<"print_count">>
    /\ args \in {<<>>} \cup {<<c>> : c \in Counts}
    /\ cfg \in Configs
    /\ Idle

NextCount ==
    \/ PrintCountEnter
    \/ PrintCountHeader
    \/ PrintCountBody
    \/ PrintCountReturn

SpecCount == InitCount /\ [][NextCount]_vars

(***************************************************************************)
(* main.cpp:4-13, the demonstration entry point.                           *)
(***************************************************************************)
MainGreeting ==
    /\ At("main:5")
    /\ out' = out \o get_greeting(STR_WORLD) \o endl
    /\ pc' = Goto("main:6")
    /\ UNCHANGED <<args, result, cfg, count, i, test_count, test_passed,
                   greeting, default_greeting, build_info, exit_status>>

MainDescription ==
    /\ At("main:6")
    /\ out' = out \o STR_DESCRIPTION \o endl
    /\ pc' = Goto("main:8")
    /\ UNCHANGED <<args, result, cfg, count, i, test_count, test_passed,
                   greeting, default_greeting, build_info, exit_status>>

MainBuildInfo ==
    /\ At("main:8")
    /\ out' = out \o get_build_info(cfg) \o <<"\n">> \o endl
    /\ pc' = Goto("main:10")
    /\ UNCHANGED <<args, result, cfg, count, i, test_count, test_passed,
                   greeting, default_greeting, build_info, exit_status>>

\* main.cpp:10 with a count one short of the default.
MainPrintCount_OneShort ==
    /\ At("main:10")
    /\ args' = <<4>>
    /\ pc' = Append(Goto("main:12"), "print_count")
    /\ UNCHANGED <<result, out, cfg, count, i, test_count, test_passed,
                   greeting, default_greeting, build_info, exit_status>>

MainPrintCount ==
    /\ At("main:10")
    /\ args' = <<5>>
    /\ pc' = Append(Goto("main:12"), "print_count")
    /\ UNCHANGED <<result, out, cfg, count, i, test_count, test_passed,
                   greeting, default_greeting, build_info, exit_status>>

MainReturn ==
    /\ At("main:12")
    /\ exit_status' = 0
    /\ pc' = Return
    /\ UNCHANGED <<args, result, out, cfg, count, i, test_count, test_passed,
                   greeting, default_greeting, build_info>>

InitMain ==
    /\ pc = <<"main:5">>
    /\ args = <<>>
    /\ cfg \in Configs
    /\ Idle

NextMain ==
    \/ MainGreeting
    \/ MainDescription
    \/ MainBuildInfo
    \/ MainPrintCount
    \/ PrintCountEnter
    \/ PrintCountHeader
    \/ PrintCountBody
    \/ PrintCountReturn
    \/ MainReturn

SpecMain == InitMain /\ [][NextMain]_vars

(***************************************************************************)
(* test_hello.cpp.  The harness is compiled against hello.hpp alone, and   *)
(* its checks exist to tell a correct library from a faulty one: a call    *)
(* into the library under test returns what hello.cpp returns, or one of   *)
(* the strings a faulty library could return.                              *)
(***************************************************************************)
FaultyGreetings == {<<>>, STR_HELLO_TEST, STR_CPP}

FaultyBuildInfos == {<<>>, STR_UNKNOWN}

GreetingUnderTest(name) == {get_greeting(name)} \cup FaultyGreetings

BuildInfoUnderTest(c) == {get_build_info(c)} \cup FaultyBuildInfos

\* test_assert counting a pass before it looks at the condition, and again
\* when the condition holds.
test_assert_DoubleCount(condition, test_name) ==
    /\ test_count' = test_count + 1
    /\ IF condition
       THEN /\ test_passed' = test_passed + 2
            /\ out' = out \o STR_PASS \o test_name \o endl
       ELSE /\ test_passed' = test_passed + 1
            /\ out' = out \o STR_FAIL \o test_name \o endl

\* test_assert stopping the process at a failed check, as the assert of the
\* <cassert> the file includes would.
test_assert_Aborting(condition, test_name) ==
    /\ condition
    /\ test_count' = test_count + 1
    /\ test_passed' = test_passed + 1
    /\ out' = out \o STR_PASS \o test_name \o endl

\* test_assert writing nothing for a failed check.
test_assert_SilentFailure(condition, test_name) ==
    /\ test_count' = test_count + 1
    /\ IF condition
       THEN /\ test_passed' = test_passed + 1
            /\ out' = out \o STR_PASS \o test_name \o endl
       ELSE /\ test_passed' = test_passed
            /\ out' = out

\* test_hello.cpp:10-18
test_assert(condition, test_name) ==
    /\ test_count' = test_count + 1
    /\ IF condition
       THEN /\ test_passed' = test_passed + 1
            /\ out' = out \o STR_PASS \o test_name \o endl
       ELSE /\ test_passed' = test_passed
            /\ out' = out \o STR_FAIL \o test_name \o endl

TestBanner ==
    /\ At("test:21")
    /\ out' = out \o STR_RUNNING \o endl
    /\ pc' = Goto("test:25")
    /\ UNCHANGED <<args, result, cfg, count, i, test_count, test_passed,
                   greeting, default_greeting, build_info, exit_status>>

TestGetGreeting ==
    /\ At("test:25")
    /\ greeting' \in GreetingUnderTest(STR_TEST)
    /\ pc' = Goto("test:26")
    /\ UNCHANGED <<args, result, out, cfg, count, i, test_count, test_passed,
                   default_greeting, build_info, exit_status>>

TestCheck1 ==
    /\ At("test:26")
    /\ test_assert(find(greeting, STR_HELLO_TEST) # npos, NAME_1)
    /\ pc' = Goto("test:28")
    /\ UNCHANGED <<args, result, cfg, count, i, greeting, default_greeting,
                   build_info, exit_status>>

\* test_hello.cpp:28-30: the check, and the end of greeting's scope.
TestCheck2 ==
    /\ At("test:28")
    /\ test_assert(find(greeting, STR_CPP) # npos, NAME_2)
    /\ greeting' = <<>>
    /\ pc' = Goto("test:34")
    /\ UNCHANGED <<args, result, cfg, count, i, default_greeting,
                   build_info, exit_status>>

\* test_hello.cpp:34: no argument, so hello.hpp:11 supplies "World".
TestGetDefaultGreeting ==
    /\ At("test:34")
    /\ default_greeting' \in GreetingUnderTest(STR_WORLD)
    /\ pc' = Goto("test:35")
    /\ UNCHANGED <<args, result, out, cfg, count, i, test_count, test_passed,
                   greeting, build_info, exit_status>>

\* test_hello.cpp:35-37: the check, and the end of default_greeting's scope.
TestCheck3 ==
    /\ At("test:35")
    /\ test_assert(find(default_greeting, STR_WORLD) # npos, NAME_3)
    /\ default_greeting' = <<>>
    /\ pc' = Goto("test:41")
    /\ UNCHANGED <<args, result, cfg, count, i, greeting, build_info,
                   exit_status>>

TestGetBuildInfo ==
    /\ At("test:41")
    /\ build_info' \in BuildInfoUnderTest(cfg)
    /\ pc' = Goto("test:42")
    /\ UNCHANGED <<args, result, out, cfg, count, i, test_count, test_passed,
                   greeting, default_greeting, exit_status>>

TestCheck4 ==
    /\ At("test:42")
    /\ test_assert(~empty(build_info), NAME_4)
    /\ pc' = Goto("test:43")
    /\ UNCHANGED <<args, result, cfg, count, i, greeting, default_greeting,
                   build_info, exit_status>>

\* test_hello.cpp:43-45: the check, and the end of build_info's scope.
TestCheck5 ==
    /\ At("test:43")
    /\ test_assert(find(build_info, STR_BUILD) # npos, NAME_5)
    /\ build_info' = <<>>
    /\ pc' = Goto("test:48")
    /\ UNCHANGED <<args, result, cfg, count, i, greeting, default_greeting,
                   exit_status>>

\* test_hello.cpp:48-51
TestReport ==
    /\ At("test:48")
    /\ out' = out \o STR_RESULTS \o endl
                  \o STR_TESTS_RUN \o IntToDec(test_count) \o endl
                  \o STR_TESTS_PASSED \o IntToDec(test_passed) \o endl
                  \o STR_TESTS_FAILED \o IntToDec(test_count - test_passed)
                  \o endl
    /\ pc' = Goto("test:53")
    /\ UNCHANGED <<args, result, cfg, count, i, test_count, test_passed,
                   greeting, default_greeting, build_info, exit_status>>

\* test_hello.cpp:53-59 with return 0 on both paths.
TestVerdict_ReturnsZero ==
    /\ At("test:53")
    /\ IF test_passed = test_count
       THEN out' = out \o STR_ALL_PASSED \o endl
       ELSE out' = out \o STR_SOME_FAILED \o endl
    /\ exit_status' = 0
    /\ pc' = Return
    /\ UNCHANGED <<args, result, cfg, count, i, test_count, test_passed,
                   greeting, default_greeting, build_info>>

\* test_hello.cpp:53-59
TestVerdict ==
    /\ At("test:53")
    /\ IF test_passed = test_count
       THEN /\ out' = out \o STR_ALL_PASSED \o endl
            /\ exit_status' = 0
       ELSE /\ out' = out \o STR_SOME_FAILED \o endl
            /\ exit_status' = 1
    /\ pc' = Return
    /\ UNCHANGED <<args, result, cfg, count, i, test_count, test_passed,
                   greeting, default_greeting, build_info>>

InitTest ==
    /\ pc = <<"test:21">>
    /\ args = <<>>
    /\ cfg \in Configs
    /\ Idle

NextTest ==
    \/ TestBanner
    \/ TestGetGreeting
    \/ TestCheck1
    \/ TestCheck2
    \/ TestGetDefaultGreeting
    \/ TestCheck3
    \/ TestGetBuildInfo
    \/ TestCheck4
    \/ TestCheck5
    \/ TestReport
    \/ TestVerdict

SpecTest == InitTest /\ [][NextTest]_vars

(***************************************************************************)
(* Specifications with the progress a running sequential program makes:    *)
(* it takes its next step whenever it has one.                             *)
(***************************************************************************)
FairSpecCount == SpecCount /\ WF_vars(NextCount)

FairSpecMain == SpecMain /\ WF_vars(NextMain)

FairSpecTest == SpecTest /\ WF_vars(NextTest)

(***************************************************************************)
(* Reading the output back: lines, prefixes, decimal numbers.              *)
(***************************************************************************)
Returned == pc = <<>>

HasPrefix(s, p) == Len(p) <= Len(s) /\ SubSeq(s, 1, Len(p)) = p

After(s, p) == SubSeq(s, Len(p) + 1, Len(s))

Contains(s, sub) == \E p \in 0..Len(s) : MatchAt(s, sub, p)

\* The lines of s: the bytes before each line feed, and what follows the
\* last one when that is not empty.
RECURSIVE Lines(_)
Lines(s) ==
    IF s = <<>> THEN <<>>
    ELSE LET nl == find(s, <<"\n">>)
         IN IF nl = npos THEN <<s>>
            ELSE <<SubSeq(s, 1, nl)>> \o Lines(SubSeq(s, nl + 2, Len(s)))

DigitBytes == {"0", "1", "2", "3", "4", "5", "6", "7", "8", "9"}

IsDigits(s) == Len(s) > 0 /\ \A k \in 1..Len(s) : s[k] \in DigitBytes

DigitValue(b) == CHOOSE d \in 0..9 : Digit(d) = b

RECURSIVE ParseDec(_)
ParseDec(s) ==
    IF Len(s) = 0 THEN 0
    ELSE 10 * ParseDec(SubSeq(s, 1, Len(s) - 1)) + DigitValue(s[Len(s)])

\* A line that shows the non-negative number n in decimal after prefix p.
ShowsNumber(line, p, n) ==
    /\ HasPrefix(line, p)
    /\ IsDigits(After(line, p))
    /\ ParseDec(After(line, p)) = n

CountLinesWritten(lines, c) ==
    /\ Len(lines) = c + 1
    /\ lines[1] \o endl = STR_COUNTING
    /\ \A k \in 1..c : ShowsNumber(lines[k + 1], STR_COUNT, k - 1)

(***************************************************************************)
(* C4: for every count C >= 0, print_count(C) returns having written the   *)
(* header line first and then exactly C body lines, whose indices are      *)
(* 0, 1, ..., C-1 in this order; for C = 0 the header line alone.          *)
(***************************************************************************)
C4_HeaderThenCountLines ==
    /\ [](Returned /\ count >= 0 => CountLinesWritten(Lines(out), count))
    /\ <>Returned

C4_Witness ==
    /\ Returned
    /\ count = 11
    /\ Len(Lines(out)) = 12
    /\ After(Lines(out)[12], STR_COUNT) = <<"1", "0">>

(***************************************************************************)
(* C10: the parameter is an int, so a negative count can be passed; for    *)
(* every negative count print_count returns having written the header      *)
(* line and no body line.                                                  *)
(***************************************************************************)
C10_NegativeCountHeaderOnly ==
    /\ [](count < 0 => out \in {<<>>, STR_COUNTING})
    /\ [](count < 0 /\ Returned => out = STR_COUNTING)
    /\ <>Returned

C10_Witness ==
    /\ Returned
    /\ Len(args) = 1
    /\ args[1] = 0 - MaxNeg
    /\ count = args[1]
    /\ Lines(out) = <<SubSeq(STR_COUNTING, 1, Len(STR_COUNTING) - 1)>>

LABEL_DEBUG == <<"D", "E", "B", "U", "G">>
LABEL_RELEASE == <<"R", "E", "L", "E", "A", "S", "E">>
LABEL_STANDARD == <<"S", "t", "a", "n", "d", "a", "r", "d">>

BuildModeLabels(info) ==
    {label \in {LABEL_DEBUG, LABEL_RELEASE, LABEL_STANDARD} :
        Len(Lines(info)) > 0 /\ Contains(Lines(info)[1], label)}

(***************************************************************************)
(* C5: under each of the four combinations of DEBUG_BUILD and              *)
(* RELEASE_BUILD being defined or not, the first line of get_build_info's  *)
(* result carries exactly one of the build-mode labels debug, release and  *)
(* standard, and it is the standard label exactly when neither macro is    *)
(* defined.                                                                *)
(***************************************************************************)
C5_ExactlyOneBuildModeLabel ==
    Returned =>
        /\ Cardinality(BuildModeLabels(result)) = 1
        /\ LABEL_STANDARD \in BuildModeLabels(result)
              <=> ~Defined(cfg, "DEBUG_BUILD") /\ ~Defined(cfg, "RELEASE_BUILD")

C5_Witness ==
    /\ Returned
    /\ Defined(cfg, "DEBUG_BUILD")
    /\ Defined(cfg, "RELEASE_BUILD")
    /\ BuildModeLabels(result) = {LABEL_DEBUG}

\* text is family, then major "." minor in decimal.
NamesCompiler(text, family, major, minor) ==
    /\ HasPrefix(text, family)
    /\ LET version == After(text, family)
           dot == find(version, STR_DOT)
       IN /\ dot # npos
          /\ ShowsNumber(SubSeq(version, 1, dot), <<>>, major)
          /\ ShowsNumber(SubSeq(version, dot + 2, Len(version)), <<>>, minor)

CompilerLineFor(text, c) ==
    IF Defined(c, "__clang__")
    THEN NamesCompiler(text, STR_CLANG, c["__clang_major__"][1],
                       c["__clang_minor__"][1])
    ELSE IF Defined(c, "__GNUC__")
    THEN NamesCompiler(text, STR_GCC, c["__GNUC__"][1], c["__GNUC_MINOR__"][1])
    ELSE text = STR_UNKNOWN

(***************************************************************************)
(* C7: under every compile-time configuration get_build_info returns a     *)
(* non-empty string that contains "build", then a compiler line that is    *)
(* the family (Clang or GCC) with its major.minor version, or the          *)
(* "Unknown compiler" fallback when neither compiler macro is defined,     *)
(* then the language-standard line.                                        *)
(***************************************************************************)
C7_BuildInfoAlwaysDefined ==
    Returned =>
        /\ ~empty(result)
        /\ find(result, STR_BUILD) # npos
        /\ Len(Lines(result)) = 3
        /\ Contains(Lines(result)[1], STR_BUILD)
        /\ HasPrefix(<<"\n">> \o Lines(result)[2], STR_COMPILER)
        /\ CompilerLineFor(After(<<"\n">> \o Lines(result)[2], STR_COMPILER), cfg)
        /\ ShowsNumber(<<"\n">> \o Lines(result)[3], STR_CPP_STANDARD,
                       cfg["__cplusplus"][1])

C7_Witness ==
    /\ Returned
    /\ ~Defined(cfg, "__clang__")
    /\ ~Defined(cfg, "__GNUC__")
    /\ ~Defined(cfg, "DEBUG_BUILD")
    /\ ~Defined(cfg, "RELEASE_BUILD")
    /\ Lines(result)[2] = After(STR_COMPILER, <<"\n">>) \o STR_UNKNOWN

(***************************************************************************)
(* C6: for every name N, the empty one included, get_greeting(N) contains  *)
(* "Hello, " immediately followed by N and contains "C++"; with no name    *)
(* given the result contains "World".  The call writes nothing and changes *)
(* nothing else.                                                           *)
(***************************************************************************)
C6_GreetingContainsName ==
    /\ out = <<>>
    /\ test_count = 0
    /\ test_passed = 0
    /\ exit_status = NotExited
    /\ Returned =>
          /\ Len(args) = 1 => find(result, STR_HELLO \o args[1]) # npos
          /\ Len(args) = 0 => find(result, STR_WORLD) # npos
          /\ find(result, STR_CPP) # npos

C6_Witness ==
    /\ Returned
    /\ args = << <<>> >>
    /\ find(result, STR_HELLO) = 0
    /\ find(result, STR_CPP) = Len(STR_HELLO) + 6

\* Output only grows: what was written stays, in the order it was written.
OutputExtends(before, after) == HasPrefix(after, before)

DemoOutput(lines, c) ==
    LET info == Lines(get_build_info(c))
        n == Len(info)
    IN /\ Len(lines) = 4 + n + 1 + DefaultCount
       /\ Contains(lines[1], STR_HELLO \o STR_WORLD)
       /\ lines[2] \o endl = STR_DESCRIPTION
       /\ lines[3] = <<>>
       /\ SubSeq(lines, 4, 3 + n) = info
       /\ lines[4 + n] = <<>>
       /\ CountLinesWritten(SubSeq(lines, 5 + n, Len(lines)), DefaultCount)

(***************************************************************************)
(* C8: the demonstration entry point writes the greeting, then the         *)
(* descriptive line, then the build info, then print_count's header and    *)
(* its body lines for the default count of 5, and always returns 0.        *)
(***************************************************************************)
C8_DemoSequenceThenSuccess ==
    /\ [][OutputExtends(out, out')]_vars
    /\ [](Returned => exit_status = 0 /\ DemoOutput(Lines(out), cfg))
    /\ [](~Returned => exit_status = NotExited)
    /\ <>Returned

C8_Witness ==
    /\ Returned
    /\ exit_status = 0
    /\ Defined(cfg, "RELEASE_BUILD")
    /\ ~Defined(cfg, "DEBUG_BUILD")
    /\ Contains(Lines(out)[4], LABEL_RELEASE)
    /\ ShowsNumber(Lines(out)[Len(Lines(out))], STR_COUNT, 4)

(***************************************************************************)
(* Reading the harness's output back.                                      *)
(***************************************************************************)
IsIndicator(line) == HasPrefix(line, STR_PASS) \/ HasPrefix(line, STR_FAIL)

IsFailure(line) == HasPrefix(line, STR_FAIL)

\* STR_PASS and STR_FAIL are equally long.
IndicatorLabel(line) == After(line, STR_PASS)

Indicators(s) == SelectSeq(Lines(s), IsIndicator)

TestNames == <<NAME_1 \o endl, NAME_2 \o endl, NAME_3 \o endl,
               NAME_4 \o endl, NAME_5 \o endl>>

Reported == At("test:53") \/ (Returned /\ exit_status # NotExited)

(***************************************************************************)
(* C1: whatever the outcomes of the checks, the test entry point returns 0 *)
(* with the overall-success report if test_passed = test_count when the    *)
(* results are reported, and returns 1 with the overall-failure report     *)
(* otherwise; a single failed check is enough for the non-zero exit.       *)
(***************************************************************************)
C1_ExitStatusFollowsTally ==
    Returned =>
        LET lines == Lines(out)
            last == lines[Len(lines)] \o endl
        IN /\ test_passed = test_count =>
                 exit_status = 0 /\ last = STR_ALL_PASSED \o endl
           /\ test_passed # test_count =>
                 exit_status = 1 /\ last = STR_SOME_FAILED \o endl
           /\ (\E k \in 1..Len(lines) : IsFailure(lines[k])) => exit_status = 1
           /\ exit_status = 0 => \A k \in 1..Len(lines) : ~IsFailure(lines[k])

C1_Witness ==
    /\ Returned
    /\ exit_status = 1
    /\ test_count = 5
    /\ test_passed = 4
    /\ Cardinality({k \in 1..Len(Lines(out)) : IsFailure(Lines(out)[k])}) = 1

(***************************************************************************)
(* C2: in every state of a harness run 0 <= test_passed <= test_count, and *)
(* the failed count the report shows is test_count - test_passed, which is *)
(* not negative.                                                           *)
(***************************************************************************)
C2_TallyInvariant ==
    /\ 0 <= test_passed
    /\ test_passed <= test_count
    /\ Reported =>
          \E k \in 1..Len(Lines(out)) :
              /\ HasPrefix(Lines(out)[k], STR_TESTS_FAILED)
              /\ ShowsNumber(Lines(out)[k], STR_TESTS_FAILED,
                             test_count - test_passed)

C2_Witness ==
    /\ Reported
    /\ test_count = 5
    /\ test_passed = 2
    /\ \E k \in 1..Len(Lines(out)) :
          Lines(out)[k] = STR_TESTS_FAILED \o <<"3">>

ChecksRunSoFar ==
    /\ Len(Indicators(out)) = test_count
    /\ test_count <= Len(TestNames)
    /\ \A k \in 1..test_count :
          IndicatorLabel(Indicators(out)[k]) \o endl = TestNames[k]

(***************************************************************************)
(* C3: a failed check does not stop the harness: whatever the outcomes,    *)
(* the run reaches the results report and returns, by then each of the     *)
(* five checks has run exactly once, in the order of the source, and       *)
(* test_count is 5 when the run ends.                                      *)
(***************************************************************************)
C3_AllChecksAlwaysRun ==
    /\ []ChecksRunSoFar
    /\ [](Reported => test_count = 5)
    /\ <>(Reported /\ Returned)

C3_Witness ==
    /\ Returned
    /\ exit_status = 1
    /\ test_passed = 0
    /\ Len(Indicators(out)) = 5
    /\ \A k \in 1..5 : IsFailure(Indicators(out)[k])

\* The condition and the label of the call at each call site.
CallSites == {"test:26", "test:28", "test:35", "test:42", "test:43"}

ConditionAt(site) ==
    CASE site = "test:26" -> Contains(greeting, STR_HELLO_TEST)
      [] site = "test:28" -> Contains(greeting, STR_CPP)
      [] site = "test:35" -> Contains(default_greeting, STR_WORLD)
      [] site = "test:42" -> Len(build_info) > 0
      [] site = "test:43" -> Contains(build_info, STR_BUILD)

LabelAt(site) ==
    CASE site = "test:26" -> NAME_1
      [] site = "test:28" -> NAME_2
      [] site = "test:35" -> NAME_3
      [] site = "test:42" -> NAME_4
      [] site = "test:43" -> NAME_5

TestAssertEffect(site) ==
    /\ test_count' = test_count + 1
    /\ test_passed' = IF ConditionAt(site) THEN test_passed + 1 ELSE test_passed
    /\ HasPrefix(out', out)
    /\ Lines(After(out', out)) =
          << (IF ConditionAt(site) THEN STR_PASS ELSE STR_FAIL) \o LabelAt(site) >>
    /\ out'[Len(out')] = "\n"

(***************************************************************************)
(* C9: each call of test_assert adds exactly 1 to test_count; it adds      *)
(* exactly 1 to test_passed when its condition holds and leaves            *)
(* test_passed as it is when not; and it writes exactly one line, with the *)
(* call's label: a pass indicator when the condition holds, a failure      *)
(* indicator when not.  No other step changes a counter.                   *)
(***************************************************************************)
C9_TestAssertEffect ==
    [][IF Len(pc) > 0 /\ pc[Len(pc)] \in CallSites
       THEN TestAssertEffect(pc[Len(pc)])
       ELSE test_count' = test_count /\ test_passed' = test_passed]_vars

C9_Witness ==
    /\ At("test:35")
    /\ test_count = 2
    /\ test_passed = 1
    /\ IsFailure(Indicators(out)[1])
    /\ ~IsFailure(Indicators(out)[2])
====
